---- MODULE Spec2Model ----
(***************************************************************************)
(* terminal-3d: the frame compositor (src/src/terminal.rs), the driver     *)
(* loop (src/src/main.rs), the two cameras (src/src/camera/*.rs), the      *)
(* vector and matrix algebra (src/src/vector3.rs, src/src/matrix3.rs), the *)
(* rasterizer (src/src/render.rs) and the world (src/src/world.rs).        *)
(*                                                                         *)
(* Depths are f64 in the source; the model draws them from a small range   *)
(* of integers, on which <, > and = agree with the f64 comparisons (no NaN *)
(* is drawn).  Rounded pixels are i64 in the source; the model draws them  *)
(* from a set of pixels on and around the grid plus pixels past 2^16,      *)
(* where the source's `as u16` conversion wraps.  Vectors and matrices     *)
(* have integer components, or components in half units where the source   *)
(* halves or rounds, and quotients are kept as numerator and denominator.  *)
(***************************************************************************)
EXTENDS Integers, Sequences, FiniteSets, TLC

VARIABLES
    pc,           \* position of main(): new, update, pre_render, buffer, next, done, aborted
    panic,        \* "none", or the panic that aborted the process
    frame,        \* the loop variable `frame` of main()
    term_width,   \* Terminal.term_width
    term_height,  \* Terminal.term_height
    display,      \* Terminal.display: Vec<Character>, 1-based here
    out,          \* what the last step wrote to stdout, one element per written item
    calls,        \* ghost: the plot_character calls of this frame, as (index, depth, style)
    found,        \* ghost: the Character the last plot_character call found in its cell
    style_a,      \* get_style_escape: a style handed to it
    style_b,      \* get_style_escape: a second style handed to it
    escape_a,     \* get_style_escape: what it returned for style_a ("" before the call)
    escape_b,     \* get_style_escape: what it returned for style_b ("" before the call)
    camera,       \* a Camera: an IsoCamera or a PerspectiveCamera
    fn_name,      \* the pure function called last ("none" before any call)
    fn_args,      \* the arguments it was called with
    fn_ret,       \* what it returned, or the samples it handed to `generate`
    objects,      \* World.objects: BTreeMap<i64, Box<dyn WorldObject>>, as a function
    counter,      \* World.counter
    added         \* ghost: the ids add_world_object assigned, in call order

terminal == <<pc, panic, frame, term_width, term_height, display, out, calls, found>>
escapes == <<style_a, style_b, escape_a, escape_b>>
functions == <<fn_name, fn_args, fn_ret>>
world == <<objects, counter, added>>
vars == <<terminal, escapes, camera, functions, world>>

----------------------------------------------------------------------------
(* Bounds of the model *)

MaxFrame == 2       \* frames the loop runs (200 in main.rs)
MaxCalls == 2       \* plot_character calls per frame
MaxDepth == 2       \* depths of the samples are 1..MaxDepth

(* Program constants *)

U16 == 65536        \* modulus of the `as u16` conversion

Colors == {"Reset", "Black", "Red", "Green", "Yellow", "Blue", "Purple", "Cyan", "White"}
Decors == {"None", "Bold", "Underline", "HighIntensity", "BoldHighIntensity"}

\* Style = (char, Color, Decor)
BlankStyle == <<" ", "Reset", "None">>
\* the styles of the objects in the scene: Square's vertex style and the
\* default edge style of WorldObject
ObjStyles == {<<"X", "Blue", "BoldHighIntensity">>, <<"O", "Reset", "None">>}

\* the glyphs the scene can put on the screen
Glyphs == {BlankStyle[1]} \cup {style[1] : style \in ObjStyles}

\* Character { frame: 0, style: (' ', Reset, None), dist: 0.0 }
BlankCharacter == [frame |-> 0, style |-> BlankStyle, dist |-> 0]

\* what get_term_size() can return: None or Some(Size { rows, cols })
NoSize == [rows |-> -1, cols |-> -1]
TermSizes == [rows : {1, 2}, cols : {1, 2}]
Polled == TermSizes \cup {NoSize}

\* rounded pixels of the samples.  On the grid of 2 rows and 2 columns (0, 0)
\* and (0, 1) fall in the first cell and (1, 3) in the last; the others are off
\* every grid: left of it, right of it, above it, below it, and past 2^16,
\* where `as u16` wraps to column 0 and column 1
Pixels == {<<0, 0>>, <<0, 1>>, <<1, 3>>,
           <<-1, 0>>, <<2, 0>>, <<0, -1>>, <<0, 4>>, <<U16, 0>>, <<U16 + 1, 3>>}
\* depths of the samples
Depths == 1..MaxDepth

----------------------------------------------------------------------------
(* Vector3, on vectors of integers *)

Points == {<<0, 0, 10>>, <<0, 0, 30>>}
Directions == {<<0, 0, -1>>, <<0, 0, -2>>, <<1, 0, 0>>}
Orientations == {<<0, 1, 0>>, <<0, 2, 0>>}
\* (width, height) as Terminal::get_term_size reports them
ScreenSizes == {<<2, 2>>, <<3, 2>>, <<3, 4>>}
Fovs == {90, 53}

Vector3_add(a, b) == <<a[1] + b[1], a[2] + b[2], a[3] + b[3]>>
Vector3_scale(a, scalar) == <<a[1] * scalar, a[2] * scalar, a[3] * scalar>>
Vector3_dot(a, b) == a[1] * b[1] + a[2] * b[2] + a[3] * b[3]

\* impl Mul<Vector3> for Vector3, the "cross product" as written
Vector3_cross(a, b) ==
    <<a[2] * b[3] - a[3] - b[2],
      a[3] * b[1] - a[1] * b[3],
      a[1] * b[2] - a[2] - b[1]>>

\* sqrt of the sum of squares; the vectors drawn have an integer magnitude
Vector3_magnitude(a) ==
    CHOOSE m \in 0..(Vector3_dot(a, a)) : m * m = Vector3_dot(a, a)

Vector3_normalize(a) ==
    LET mag == Vector3_magnitude(a)
    IN  <<a[1] \div mag, a[2] \div mag, a[3] \div mag>>

----------------------------------------------------------------------------
(* The cameras.  screen_top_left and screen_distance are kept in half       *)
(* units (twice the f64 the source holds), so that width / 2.0 and          *)
(* height / 2.0 are exact for odd sizes too.                                *)

\* 1 / tan(fov / 2) to the nearest integer, for the fields of view drawn
CotHalfFov(fov) == CASE fov = 90 -> 1 [] fov = 53 -> 2

IsoCamera_recalculate(cam) ==
    LET up == cam.orientation
        left == Vector3_cross(up, cam.observation_direction)
    IN  [cam EXCEPT !.screen_top_left =
            Vector3_add(Vector3_add(Vector3_scale(cam.observation_point, 2),
                                    Vector3_scale(left, cam.screen_size[1])),
                        Vector3_scale(up, cam.screen_size[2]))]

IsoCamera_update_screen_size(cam, size) ==
    [cam EXCEPT !.screen_size = size]

IsoCamera_update_observation_point(cam, point, direction) ==
    [cam EXCEPT !.observation_point = point, !.observation_direction = direction]

IsoCamera_new(point, direction, orientation, size) ==
    IsoCamera_recalculate(
        [kind |-> "IsoCamera",
         observation_point |-> point,
         observation_direction |-> Vector3_normalize(direction),
         orientation |-> Vector3_normalize(orientation),
         screen_size |-> size,
         screen_top_left |-> <<0, 0, 0>>])

IsoCamera_default(size) ==
    IsoCamera_recalculate(
        [kind |-> "IsoCamera",
         observation_point |-> <<0, 0, 10>>,
         observation_direction |-> Vector3_normalize(<<0, 0, -1>>),
         orientation |-> Vector3_normalize(<<0, 1, 0>>),
         screen_size |-> size,
         screen_top_left |-> <<0, 0, 0>>])

PerspectiveCamera_recalculate(cam) ==
    LET distance == cam.screen_size[1] * CotHalfFov(cam.fov)
        up == cam.orientation
        forward == cam.observation_direction
        left == Vector3_cross(up, cam.observation_direction)
    IN  [cam EXCEPT
            !.screen_distance = distance,
            !.screen_top_left =
                Vector3_add(
                    Vector3_add(Vector3_add(Vector3_scale(cam.observation_point, 2),
                                            Vector3_scale(left, cam.screen_size[1])),
                                Vector3_scale(up, cam.screen_size[2])),
                    Vector3_scale(forward, distance))]

PerspectiveCamera_update_screen_size(cam, size) ==
    PerspectiveCamera_recalculate([cam EXCEPT !.screen_size = size])

PerspectiveCamera_update_observation_point(cam, point, direction) ==
    PerspectiveCamera_recalculate(
        [cam EXCEPT !.observation_point = point, !.observation_direction = direction])

PerspectiveCamera_update_fov(cam, fov) ==
    PerspectiveCamera_recalculate([cam EXCEPT !.fov = fov])

PerspectiveCamera_new(fov, point, direction, orientation, size) ==
    PerspectiveCamera_recalculate(
        [kind |-> "PerspectiveCamera",
         fov |-> fov,
         observation_point |-> point,
         observation_direction |-> Vector3_normalize(direction),
         orientation |-> Vector3_normalize(orientation),
         screen_size |-> size,
         screen_top_left |-> <<0, 0, 0>>,
         screen_distance |-> 0])

PerspectiveCamera_default(size) ==
    PerspectiveCamera_recalculate(
        [kind |-> "PerspectiveCamera",
         fov |-> 90,
         observation_point |-> <<0, 0, 30>>,
         observation_direction |-> Vector3_normalize(<<0, 0, -1>>),
         orientation |-> Vector3_normalize(<<0, 1, 0>>),
         screen_size |-> size,
         screen_top_left |-> <<0, 0, 0>>,
         screen_distance |-> 0])

----------------------------------------------------------------------------
(* Terminal *)

AsU16(n) == n % U16

is_in_bounds(x, y, w, h) ==
    x >= 0 /\ AsU16(x) < w /\ y >= 0 /\ y < h * 2

plot_index(x, y, w) == (y \div 2) * w + x

\* mutant: a write of equal depth overwrites too
plot_character_ties_overwrite(disp, w, x, y, depth, style, fr) ==
    LET index == plot_index(x, y, w) + 1
    IN  IF disp[index].frame # fr \/ disp[index].dist >= depth
        THEN [disp EXCEPT ![index] = [frame |-> fr, style |-> style, dist |-> depth]]
        ELSE disp

\* mutant: the farther write wins
plot_character_farther_wins(disp, w, x, y, depth, style, fr) ==
    LET index == plot_index(x, y, w) + 1
    IN  IF disp[index].frame # fr \/ disp[index].dist < depth
        THEN [disp EXCEPT ![index] = [frame |-> fr, style |-> style, dist |-> depth]]
        ELSE disp

\* mutant: the frame stamp is not consulted
plot_character_ignores_stamp(disp, w, x, y, depth, style, fr) ==
    LET index == plot_index(x, y, w) + 1
    IN  IF disp[index].dist > depth
        THEN [disp EXCEPT ![index] = [frame |-> fr, style |-> style, dist |-> depth]]
        ELSE disp

plot_character(disp, w, x, y, depth, style, fr) ==
    LET index == plot_index(x, y, w) + 1
    IN  IF disp[index].frame # fr \/ disp[index].dist > depth
        THEN [disp EXCEPT ![index] = [frame |-> fr, style |-> style, dist |-> depth]]
        ELSE disp

New(size) ==
    /\ pc = "new"
    /\ out' = <<"ESC[2J">>
    /\ IF size = NoSize
       THEN /\ pc' = "aborted"
            /\ panic' = "unwrap on None"
            /\ UNCHANGED <<term_width, term_height, display>>
       ELSE /\ pc' = "update"
            /\ term_width' = size.cols
            /\ term_height' = size.rows
            /\ display' = <<>>
            /\ UNCHANGED panic
    /\ UNCHANGED <<frame, calls, found>>
    /\ UNCHANGED <<escapes, camera, functions, world>>

Update ==
    /\ pc = "update"
    /\ pc' = "pre_render"
    /\ out' = <<>>
    /\ UNCHANGED <<panic, frame, term_width, term_height, display, calls, found>>
    /\ UNCHANGED <<escapes, camera, functions, world>>

pre_render_resize(h, size) == h # size.rows \/ h # size.cols

\* mutant: an unavailable size is taken as "no change" and the frame goes on
PreRender_ignores_unavailable(size) ==
    /\ pc = "pre_render"
    /\ out' = <<>>
    /\ pc' = "buffer"
    /\ calls' = <<>>
    /\ found' = BlankCharacter
    /\ UNCHANGED panic
    /\ IF size # NoSize /\ pre_render_resize(term_height, size)
       THEN /\ term_height' = size.rows
            /\ term_width' = size.cols
            /\ display' = [i \in 1..(size.rows * size.cols) |-> BlankCharacter]
       ELSE UNCHANGED <<term_width, term_height, display>>
    /\ UNCHANGED frame
    /\ UNCHANGED <<escapes, camera, functions, world>>

PreRender(size) ==
    /\ pc = "pre_render"
    /\ out' = <<>>
    /\ IF size = NoSize
       THEN /\ pc' = "aborted"
            /\ panic' = "unwrap on None"
            /\ UNCHANGED <<term_width, term_height, display, calls, found>>
       ELSE /\ pc' = "buffer"
            /\ calls' = <<>>
            /\ found' = BlankCharacter
            /\ UNCHANGED panic
            /\ IF pre_render_resize(term_height, size)
               THEN /\ term_height' = size.rows
                    /\ term_width' = size.cols
                    /\ display' = [i \in 1..(size.rows * size.cols) |-> BlankCharacter]
               ELSE UNCHANGED <<term_width, term_height, display>>
    /\ UNCHANGED frame
    /\ UNCHANGED <<escapes, camera, functions, world>>

\* one sample of buffer_world_object: a projected vertex, or a sample of an edge's
\* line, rounded to the pixel (x, y)
BufferSample(x, y, depth, style) ==
    /\ pc = "buffer"
    /\ Len(calls) < MaxCalls
    /\ out' = <<>>
    /\ IF is_in_bounds(x, y, term_width, term_height)
       THEN LET index == plot_index(AsU16(x), AsU16(y), term_width)
            IN  IF index >= Len(display)
                THEN /\ pc' = "aborted"
                     /\ panic' = "index out of bounds"
                     /\ UNCHANGED <<display, calls, found>>
                ELSE /\ display' = plot_character(display, term_width, AsU16(x), AsU16(y),
                                                  depth, style, frame)
                     /\ calls' = Append(calls, [index |-> index, depth |-> depth, style |-> style])
                     /\ found' = display[index + 1]
                     /\ UNCHANGED <<pc, panic>>
       ELSE UNCHANGED <<pc, panic, display, calls, found>>
    /\ UNCHANGED <<frame, term_width, term_height>>
    /\ UNCHANGED <<escapes, camera, functions, world>>

\* mutant: BoldHighIntensity is not given the high-intensity digit
get_style_escape_bold_not_bright(style) ==
    IF style[2] = "Reset"
    THEN "ESC[0m"
    ELSE LET color_num_1 == IF style[3] = "HighIntensity" THEN 9 ELSE 3
             color_num_2 == CASE style[2] = "Black" -> 0
                              [] style[2] = "Red" -> 1
                              [] style[2] = "Green" -> 2
                              [] style[2] = "Yellow" -> 3
                              [] style[2] = "Blue" -> 4
                              [] style[2] = "Purple" -> 5
                              [] style[2] = "Cyan" -> 6
                              [] style[2] = "White" -> 7
             decor_num == CASE style[3] = "None" -> 0
                            [] style[3] = "Bold" -> 1
                            [] style[3] = "Underline" -> 4
                            [] style[3] = "HighIntensity" -> 0
                            [] style[3] = "BoldHighIntensity" -> 1
         IN  "ESC[" \o ToString(decor_num) \o ";" \o ToString(color_num_1)
                 \o ToString(color_num_2) \o "m"

get_style_escape(style) ==
    IF style[2] = "Reset"
    THEN "ESC[0m"
    ELSE LET color_num_1 == IF style[3] = "HighIntensity" \/ style[3] = "BoldHighIntensity"
                            THEN 9 ELSE 3
             color_num_2 == CASE style[2] = "Reset" -> -1
                              [] style[2] = "Black" -> 0
                              [] style[2] = "Red" -> 1
                              [] style[2] = "Green" -> 2
                              [] style[2] = "Yellow" -> 3
                              [] style[2] = "Blue" -> 4
                              [] style[2] = "Purple" -> 5
                              [] style[2] = "Cyan" -> 6
                              [] style[2] = "White" -> 7
             decor_num == CASE style[3] = "None" -> 0
                            [] style[3] = "Bold" -> 1
                            [] style[3] = "Underline" -> 4
                            [] style[3] = "HighIntensity" -> 0
                            [] style[3] = "BoldHighIntensity" -> 1
         IN  "ESC[" \o ToString(decor_num) \o ";" \o ToString(color_num_1)
                 \o ToString(color_num_2) \o "m"

\* mutant: the newline is written after the last glyph of each row
RECURSIVE render_from_newline_after_row(_, _, _, _)
render_from_newline_after_row(disp, w, i, prev_style) ==
    IF i >= Len(disp)
    THEN <<>>
    ELSE LET item == disp[i + 1]
             changed == item.style[2] # prev_style[2] \/ item.style[3] # prev_style[3]
             prev == IF changed THEN item.style ELSE prev_style
             escape == IF changed THEN <<get_style_escape(prev)>> ELSE <<>>
             glyph == IF (i + 1) % w = 0
                      THEN <<item.style[1], "\n">>
                      ELSE <<item.style[1]>>
         IN  escape \o glyph \o render_from_newline_after_row(disp, w, i + 1, prev)

\* mutant: only the colour is compared with the previous style
RECURSIVE render_from_compares_color_only(_, _, _, _)
render_from_compares_color_only(disp, w, i, prev_style) ==
    IF i >= Len(disp)
    THEN <<>>
    ELSE LET item == disp[i + 1]
             changed == item.style[2] # prev_style[2]
             prev == IF changed THEN item.style ELSE prev_style
             escape == IF changed THEN <<get_style_escape(prev)>> ELSE <<>>
             glyph == IF i # 0 /\ i % w = 0
                      THEN <<"\n", item.style[1]>>
                      ELSE <<item.style[1]>>
         IN  escape \o glyph \o render_from_compares_color_only(disp, w, i + 1, prev)

\* the loop of render() from cell i (0-based) on, prev_style as the loop carries it
RECURSIVE render_from(_, _, _, _)
render_from(disp, w, i, prev_style) ==
    IF i >= Len(disp)
    THEN <<>>
    ELSE LET item == disp[i + 1]
             changed == item.style[2] # prev_style[2] \/ item.style[3] # prev_style[3]
             prev == IF changed THEN item.style ELSE prev_style
             escape == IF changed THEN <<get_style_escape(prev)>> ELSE <<>>
             glyph == IF i # 0 /\ i % w = 0
                      THEN <<"\n", item.style[1]>>
                      ELSE <<item.style[1]>>
         IN  escape \o glyph \o render_from(disp, w, i + 1, prev)

render_output(disp, w) ==
    <<"ESC[H", get_style_escape(BlankStyle)>> \o render_from(disp, w, 0, BlankStyle)

\* render(), once every object is buffered
Render ==
    /\ pc = "buffer"
    /\ pc' = "next"
    /\ out' = render_output(display, term_width)
    /\ UNCHANGED <<panic, frame, term_width, term_height, display, calls, found>>
    /\ UNCHANGED <<escapes, camera, functions, world>>

\* mutant: the next frame starts at pre_render, its update pass left out
NextFrame_skips_update ==
    /\ pc = "next"
    /\ out' = <<>>
    /\ calls' = <<>>
    /\ found' = BlankCharacter
    /\ IF frame < MaxFrame
       THEN pc' = "pre_render" /\ frame' = frame + 1
       ELSE pc' = "done" /\ UNCHANGED frame
    /\ UNCHANGED <<panic, term_width, term_height, display>>
    /\ UNCHANGED <<escapes, camera, functions, world>>

\* the head of `for frame in 1..=200`
NextFrame ==
    /\ pc = "next"
    /\ out' = <<>>
    /\ calls' = <<>>
    /\ found' = BlankCharacter
    /\ IF frame < MaxFrame
       THEN pc' = "update" /\ frame' = frame + 1
       ELSE pc' = "done" /\ UNCHANGED frame
    /\ UNCHANGED <<panic, term_width, term_height, display>>
    /\ UNCHANGED <<escapes, camera, functions, world>>

TerminalInit ==
    /\ pc = "new"
    /\ panic = "none"
    /\ frame = 1
    /\ term_width = 0
    /\ term_height = 0
    /\ display = <<>>
    /\ out = <<>>
    /\ calls = <<>>
    /\ found = BlankCharacter

EscapesInit ==
    /\ style_a = BlankStyle
    /\ style_b = BlankStyle
    /\ escape_a = ""
    /\ escape_b = ""

FunctionsInit ==
    /\ fn_name = "none"
    /\ fn_args = <<>>
    /\ fn_ret = <<>>

\* World::new()
WorldInit ==
    /\ objects = <<>>
    /\ counter = 0
    /\ added = <<>>

Init ==
    /\ TerminalInit
    /\ EscapesInit
    /\ camera = IsoCamera_default(<<2, 2>>)
    /\ FunctionsInit
    /\ WorldInit

Next ==
    \/ \E size \in Polled : New(size)
    \/ Update
    \/ \E size \in Polled : PreRender(size)
    \/ \E pixel \in Pixels, depth \in Depths, style \in ObjStyles :
          BufferSample(pixel[1], pixel[2], depth, style)
    \/ Render
    \/ NextFrame

Spec == Init /\ [][Next]_vars

----------------------------------------------------------------------------
(* get_style_escape as a function of its argument *)

AllStyles == Glyphs \X Colors \X Decors

GetStyleEscape ==
    /\ escape_a = ""
    /\ escape_a' = get_style_escape(style_a)
    /\ escape_b' = get_style_escape(style_b)
    /\ UNCHANGED <<terminal, style_a, style_b, camera, functions, world>>

InitEscape ==
    /\ TerminalInit
    /\ style_a \in AllStyles
    /\ style_b \in AllStyles
    /\ escape_a = ""
    /\ escape_b = ""
    /\ camera = IsoCamera_default(<<2, 2>>)
    /\ FunctionsInit
    /\ WorldInit

NextEscape == GetStyleEscape

SpecEscape == InitEscape /\ [][NextEscape]_vars

----------------------------------------------------------------------------
(* The cameras as state machines *)

IsoCameras ==
    {IsoCamera_new(p, d, o, size) :
        p \in Points, d \in Directions, o \in Orientations, size \in ScreenSizes}
        \cup {IsoCamera_default(size) : size \in ScreenSizes}

PerspectiveCameras ==
    UNION {{PerspectiveCamera_new(fov, p, d, o, size) :
                p \in Points, d \in Directions, o \in Orientations, size \in ScreenSizes}
            : fov \in Fovs}
        \cup {PerspectiveCamera_default(size) : size \in ScreenSizes}

IsoUpdateScreenSize(size) ==
    /\ camera.kind = "IsoCamera"
    /\ camera' = IsoCamera_update_screen_size(camera, size)
    /\ UNCHANGED <<terminal, escapes, functions, world>>

IsoUpdateObservationPoint(point, direction) ==
    /\ camera.kind = "IsoCamera"
    /\ camera' = IsoCamera_update_observation_point(camera, point, direction)
    /\ UNCHANGED <<terminal, escapes, functions, world>>

IsoRecalculate ==
    /\ camera.kind = "IsoCamera"
    /\ camera' = IsoCamera_recalculate(camera)
    /\ UNCHANGED <<terminal, escapes, functions, world>>

PerspectiveUpdateScreenSize(size) ==
    /\ camera.kind = "PerspectiveCamera"
    /\ camera' = PerspectiveCamera_update_screen_size(camera, size)
    /\ UNCHANGED <<terminal, escapes, functions, world>>

PerspectiveUpdateObservationPoint(point, direction) ==
    /\ camera.kind = "PerspectiveCamera"
    /\ camera' = PerspectiveCamera_update_observation_point(camera, point, direction)
    /\ UNCHANGED <<terminal, escapes, functions, world>>

PerspectiveRecalculate ==
    /\ camera.kind = "PerspectiveCamera"
    /\ camera' = PerspectiveCamera_recalculate(camera)
    /\ UNCHANGED <<terminal, escapes, functions, world>>

PerspectiveUpdateFov(fov) ==
    /\ camera.kind = "PerspectiveCamera"
    /\ camera' = PerspectiveCamera_update_fov(camera, fov)
    /\ UNCHANGED <<terminal, escapes, functions, world>>

InitCamera ==
    /\ TerminalInit
    /\ EscapesInit
    /\ camera \in IsoCameras \cup PerspectiveCameras
    /\ FunctionsInit
    /\ WorldInit

NextCamera ==
    \/ \E size \in ScreenSizes : IsoUpdateScreenSize(size)
    \/ \E point \in Points, direction \in Directions :
          IsoUpdateObservationPoint(point, direction)
    \/ IsoRecalculate
    \/ \E size \in ScreenSizes : PerspectiveUpdateScreenSize(size)
    \/ \E point \in Points, direction \in Directions :
          PerspectiveUpdateObservationPoint(point, direction)
    \/ PerspectiveRecalculate
    \/ \E fov \in Fovs : PerspectiveUpdateFov(fov)

SpecCamera == InitCamera /\ [][NextCamera]_vars

----------------------------------------------------------------------------
(* Helpers of the properties *)

IsGlyph(item) == item \in Glyphs
IsGlyphOrNewline(item) == item \in Glyphs \/ item = "\n"

\* the glyphs of an output, in the order written
GlyphsOf(output) == SelectSeq(output, IsGlyph)
\* the glyphs and newlines of an output, in the order written
LinesOf(output) == SelectSeq(output, IsGlyphOrNewline)

\* the calls of this frame that target the cell at index i (0-based), in order
CallsTo(i) == SelectSeq(calls, LAMBDA c : c.index = i)
MinDepth(cs) == CHOOSE d \in {cs[k].depth : k \in 1..Len(cs)} :
                    \A k \in 1..Len(cs) : d <= cs[k].depth
EarliestAt(cs, d) == CHOOSE k \in 1..Len(cs) :
                        /\ cs[k].depth = d
                        /\ \A j \in 1..(k - 1) : cs[j].depth # d

LastCall == calls[Len(calls)]
Plotted == Len(calls') = Len(calls) + 1
NewCall == calls'[Len(calls')]

----------------------------------------------------------------------------
(* C1: a plot_character call overwrites its target cell with (frame, style, *)
(* depth) if and only if the cell's stamp differs from the frame or its     *)
(* depth is strictly greater than the call's; otherwise the cell stays as   *)
(* it is; every other cell of the grid is unchanged in both cases.          *)
C1_DepthTest ==
    [][Plotted =>
        LET i == NewCall.index + 1
            written == [frame |-> frame, style |-> NewCall.style, dist |-> NewCall.depth]
        IN  /\ Len(display') = Len(display)
            /\ \A j \in 1..Len(display) : j # i => display'[j] = display[j]
            /\ display'[i] = IF display[i].frame # frame \/ display[i].dist > NewCall.depth
                             THEN written
                             ELSE display[i]]_vars

\* an equal-depth write in the same frame met the first writer and left it in place
C1_Witness ==
    /\ Len(calls) = 2
    /\ calls[1].index = calls[2].index
    /\ calls[1].depth = calls[2].depth
    /\ calls[1].style # calls[2].style
    /\ found = [frame |-> frame, style |-> calls[1].style, dist |-> calls[1].depth]
    /\ display[calls[1].index + 1] = found

(* C2: after the plot calls of one frame F that target one cell, the cell's *)
(* stamp is F, its depth is the least depth of those calls and its style is *)
(* the style of the earliest call that carried the least depth.             *)
C2_NearestEarliestWins ==
    \A i \in 0..(Len(display) - 1) :
        LET cs == CallsTo(i)
        IN  cs # <<>> =>
                /\ display[i + 1].frame = frame
                /\ display[i + 1].dist = MinDepth(cs)
                /\ display[i + 1].style = cs[EarliestAt(cs, MinDepth(cs))].style

\* a later, strictly nearer write took the cell from the first writer
C2_Witness ==
    /\ Len(calls) = 2
    /\ calls[1].index = calls[2].index
    /\ calls[2].depth < calls[1].depth
    /\ calls[1].style # calls[2].style
    /\ display[calls[2].index + 1].style = calls[2].style
    /\ display[calls[2].index + 1].dist = calls[2].depth

(* C3: a plot that finds in its cell a stamp other than its own frame id    *)
(* (an earlier frame's, or the sentinel 0 of a fresh cell) overwrites the   *)
(* cell whatever the two depths are.                                        *)
C3_StaleCellOverwritten ==
    (calls # <<>> /\ found.frame # frame) =>
        display[LastCall.index + 1] =
            [frame |-> frame, style |-> LastCall.style, dist |-> LastCall.depth]

\* a cell written in an earlier frame was overwritten by a farther sample
C3_Witness ==
    /\ calls # <<>>
    /\ found.frame >= 1
    /\ found.frame < frame
    /\ found.dist < LastCall.depth
    /\ display[LastCall.index + 1].frame = frame
    /\ display[LastCall.index + 1].dist = LastCall.depth

(* C4: after every pre_render the stored width and height are the polled    *)
(* cols and rows and the grid holds rows * cols cells; when the polled size *)
(* differs from the stored one the grid is reallocated with every stamp 0.  *)
C4_SizedAfterPreRender ==
    [][\A size \in TermSizes : PreRender(size) =>
        /\ term_width' = size.cols
        /\ term_height' = size.rows
        /\ Len(display') = size.rows * size.cols
        /\ (size.rows # term_height \/ size.cols # term_width) =>
               \A j \in 1..Len(display') : display'[j].frame = 0]_vars

(* C5: a sample whose rounded pixel has x < 0, x >= width, y < 0 or         *)
(* y >= 2 * height is discarded and changes no cell; a sample that is       *)
(* plotted has 0 <= x < width and 0 <= y < 2 * height and is written at     *)
(* column x.                                                                *)
C5_OutOfRangeDiscarded ==
    [][\A pixel \in Pixels, depth \in Depths, style \in ObjStyles :
        BufferSample(pixel[1], pixel[2], depth, style) =>
            LET x == pixel[1]
                y == pixel[2]
                inside == 0 <= x /\ x < term_width /\ 0 <= y /\ y < 2 * term_height
            IN  /\ ~inside => (display' = display /\ calls' = calls)
                /\ Plotted => (inside /\ NewCall.index % term_width = x)]_vars

(* C6: once render of frame F has run, the glyph it wrote for every cell    *)
(* that received no write in frame F is the blank glyph.                    *)
C6_StaleCellsRenderBlank ==
    pc = "next" =>
        \A i \in 0..(Len(display) - 1) :
            CallsTo(i) = <<>> => GlyphsOf(out)[i + 1] = BlankStyle[1]

C9_UnavailableSizeAborts ==
    [][/\ (New(NoSize) \/ PreRender(NoSize)) =>
              /\ pc' = "aborted"
              /\ display' = display
              /\ term_width' = term_width
              /\ term_height' = term_height
       /\ pc = "aborted" => UNCHANGED vars]_vars

\* the size became unavailable at the pre_render of a later frame, with a grid in place
C9_Witness ==
    /\ pc = "aborted"
    /\ panic = "unwrap on None"
    /\ frame = 2
    /\ \E i \in 1..Len(display) : display[i].frame = 1

(* C8: get_style_escape maps every style whose color is Reset to ESC[0m,   *)
(* and every other one to ESC[{d};{i}{c}m with d = 0 for None and           *)
(* HighIntensity, 1 for Bold and BoldHighIntensity, 4 for Underline; i = 9  *)
(* for the two high-intensity decorations and 3 otherwise; c = 0..7 for     *)
(* Black..White; two styles that differ in a non-Reset color or in the      *)
(* decoration get different sequences.                                      *)
DecorCode ==
    [None |-> "0", Bold |-> "1", Underline |-> "4",
     HighIntensity |-> "0", BoldHighIntensity |-> "1"]
IntensityDigit ==
    [None |-> "3", Bold |-> "3", Underline |-> "3",
     HighIntensity |-> "9", BoldHighIntensity |-> "9"]
ColorDigit ==
    [Black |-> "0", Red |-> "1", Green |-> "2", Yellow |-> "3",
     Blue |-> "4", Purple |-> "5", Cyan |-> "6", White |-> "7"]
SgrOf(style) ==
    IF style[2] = "Reset"
    THEN "ESC[0m"
    ELSE "ESC[" \o DecorCode[style[3]] \o ";" \o IntensityDigit[style[3]]
             \o ColorDigit[style[2]] \o "m"

C8_StyleEscapeTable ==
    escape_a # "" =>
        /\ escape_a = SgrOf(style_a)
        /\ escape_b = SgrOf(style_b)
        /\ (/\ style_a[2] # "Reset"
            /\ style_b[2] # "Reset"
            /\ <<style_a[2], style_a[3]>> # <<style_b[2], style_b[3]>>)
               => escape_a # escape_b

\* a high-intensity blue and a plain blue were told apart
C8_Witness ==
    /\ style_a = <<"X", "Blue", "BoldHighIntensity">>
    /\ style_b = <<"X", "Blue", "Bold">>
    /\ escape_a = "ESC[1;94m"
    /\ escape_b = "ESC[1;34m"

(* C10: for both cameras, after any sequence of update_screen_size,         *)
(* update_observation_point and update_fov calls the derived                *)
(* screen_top_left (and screen_distance) is what recalculate computes from  *)
(* the fields as they are stored now.                                       *)
C10_DerivedStateFresh ==
    /\ camera.kind = "IsoCamera" => camera = IsoCamera_recalculate(camera)
    /\ camera.kind = "PerspectiveCamera" => camera = PerspectiveCamera_recalculate(camera)

(* C11: in every reachable camera state, of either variant, the stored      *)
(* observation_direction is a unit vector: update_observation_point stores  *)
(* the normalized direction, as the constructors do.                        *)
C11_DirectionNormalized ==
    camera.observation_direction = Vector3_normalize(camera.observation_direction)

----------------------------------------------------------------------------
(* The pure functions of vector3.rs, matrix3.rs, render.rs and of the       *)
(* cameras' project_vector, each as an action that records one call: the    *)
(* function, its arguments and what it returned.                            *)

\* vectors with small integer components
Coords == {-1, 0, 1, 2}
Vectors == Coords \X Coords \X Coords

Vector3_neg(a) == <<-a[1], -a[2], -a[3]>>
Vector3_sub(a, b) == Vector3_add(a, Vector3_neg(b))

\* onto * (self.dot(&onto) / onto.dot(&onto)); the quotient is an integer
\* for the vectors the model projects onto (unit vectors)
Vector3_project(a, onto) ==
    Vector3_scale(onto, Vector3_dot(a, onto) \div Vector3_dot(onto, onto))

\* a * b for two Vector3
Cross(a, b) ==
    /\ fn_name = "none"
    /\ fn_name' = "cross"
    /\ fn_args' = <<a, b>>
    /\ fn_ret' = Vector3_cross(a, b)
    /\ UNCHANGED <<terminal, escapes, camera, world>>

----------------------------------------------------------------------------
(* Matrix3, on matrices of integers: <<row 0, row 1, row 2>>, rows and      *)
(* columns counted from 1 here.                                             *)

\* x.abs() < f64::EPSILON, for an integer x
BelowEpsilon(x) == x = 0

Matrix3_id == <<<<1, 0, 0>>, <<0, 1, 0>>, <<0, 0, 1>>>>

Matrix3_col(m, col) == <<m[1][col], m[2][col], m[3][col]>>

Matrix3_set_col(m, col, vec) ==
    [row \in 1..3 |-> [c \in 1..3 |-> IF c = col THEN vec[row] ELSE m[row][c]]]

Matrix3_transpose(m) == [row \in 1..3 |-> [col \in 1..3 |-> m[col][row]]]

Matrix3_determinant(m) ==
    m[1][1] * m[2][2] * m[3][3]
    + m[1][2] * m[2][3] * m[3][1]
    + m[1][3] * m[2][1] * m[3][2]
    - m[1][3] * m[2][2] * m[3][1]
    - m[1][1] * m[2][3] * m[3][2]
    - m[1][2] * m[2][1] * m[3][3]

\* scalar multiplication
Matrix3_scale(m, scalar) == [row \in 1..3 |-> [col \in 1..3 |-> m[row][col] * scalar]]

\* matrix product
Matrix3_mul(m, rhs) ==
    [row \in 1..3 |-> [col \in 1..3 |->
        m[row][1] * rhs[1][col] + m[row][2] * rhs[2][col] + m[row][3] * rhs[3][col]]]

Matrix3_is_orthonormal(m) ==
    \A row \in 1..3 :
        /\ Vector3_dot(m[row], m[row]) = 1          \* |magnitude - 1| < EPSILON
        /\ \A compare \in (row + 1)..3 :            \* |angle - PI/2| < EPSILON
              \* the angle to a zero row is NaN, and NaN >= EPSILON is false
              \/ Vector3_dot(m[compare], m[compare]) = 0
              \/ Vector3_dot(m[row], m[compare]) = 0

\* Gram-Schmidt, normalizing each column as it goes
Matrix3_orthonormalize(m) ==
    LET mat0 == Matrix3_set_col(m, 1, Vector3_normalize(Matrix3_col(m, 1)))
        original1 == Matrix3_col(mat0, 2)
        vec1 == Vector3_sub(original1, Vector3_project(original1, Matrix3_col(mat0, 1)))
        mat1 == Matrix3_set_col(mat0, 2, Vector3_normalize(vec1))
        original2 == Matrix3_col(mat1, 3)
        vec2 == Vector3_sub(
                    Vector3_sub(original2, Vector3_project(original2, Matrix3_col(mat1, 1))),
                    Vector3_project(original2, Matrix3_col(mat1, 2)))
    IN  Matrix3_set_col(mat1, 3, Vector3_normalize(vec2))

\* mutant: the minor with a 1 at (i, j) whatever the parity of i + j
Matrix3_minor_always_one(m, i, j) ==
    Matrix3_determinant(
        [row \in 1..3 |-> [col \in 1..3 |->
            IF row = i
            THEN IF col = j THEN 1 ELSE 0
            ELSE IF col = j THEN 0 ELSE m[row][col]]])

\* the minor of row i and column j: column j is zeroed, row i is zeroed but
\* for a 1 or -1 at (i, j), and the determinant of that matrix is taken
Matrix3_minor(m, i, j) ==
    Matrix3_determinant(
        [row \in 1..3 |-> [col \in 1..3 |->
            IF row = i
            THEN IF col = j THEN (IF (i + col) % 2 = 0 THEN 1 ELSE -1) ELSE 0
            ELSE IF col = j THEN 0 ELSE m[row][col]]])

Matrix3_cofactor(m, i, j) ==
    IF (i + j) % 2 = 0 THEN Matrix3_minor(m, i, j) ELSE -Matrix3_minor(m, i, j)

Matrix3_cofactor_matrix(m) ==
    [row \in 1..3 |-> [col \in 1..3 |-> Matrix3_cofactor(m, row, col)]]

Matrix3_adjugate(m) == Matrix3_transpose(Matrix3_cofactor_matrix(m))

\* mutant: invert without the test of the determinant
Matrix3_invert_unchecked(m) ==
    [num |-> Matrix3_adjugate(m), den |-> Matrix3_determinant(m)]

\* Option<Matrix3>: None, or Some((1.0 / det) * adjugate), kept as the
\* integer matrix `num` over the common denominator `den`
None == [none |-> TRUE]
Matrix3_invert(m) ==
    LET det == Matrix3_determinant(m)
    IN  IF BelowEpsilon(det)
        THEN None
        ELSE [num |-> Matrix3_adjugate(m), den |-> det]

\* (cos, sin) of the quarter turns: 0, 90, 180 and 270 degrees
QuarterTurns == {<<1, 0>>, <<0, 1>>, <<-1, 0>>, <<0, -1>>}

\* the rotation matrices about the z axis (the form main.rs and the tests
\* build), the x axis and the y axis
RotationZ(cos, sin) == <<<<cos, sin, 0>>, <<-sin, cos, 0>>, <<0, 0, 1>>>>
RotationX(cos, sin) == <<<<1, 0, 0>>, <<0, cos, sin>>, <<0, -sin, cos>>>>
RotationY(cos, sin) == <<<<cos, 0, -sin>>, <<0, 1, 0>>, <<sin, 0, cos>>>>

Rotations ==
    {RotationZ(t[1], t[2]) : t \in QuarterTurns}
        \cup {RotationX(t[1], t[2]) : t \in QuarterTurns}
        \cup {RotationY(t[1], t[2]) : t \in QuarterTurns}

\* matrices whose Gram-Schmidt steps stay in the integers: the rotations,
\* the rotations scaled by 2, a shear and a reflection
Orthogonalizable ==
    Rotations
        \cup {Matrix3_scale(r, 2) : r \in Rotations}
        \cup {<<<<1, 1, 0>>, <<0, 1, 0>>, <<0, 0, 1>>>>,
              <<<<0, 1, 0>>, <<1, 0, 0>>, <<0, 0, 1>>>>}

\* matrices of integers: every matrix of 0s and 1s, and the ones above
Bits == {0, 1}
Rows == Bits \X Bits \X Bits
Matrices == (Rows \X Rows \X Rows) \cup Orthogonalizable

Determinant(m) ==
    /\ fn_name = "none"
    /\ fn_name' = "determinant"
    /\ fn_args' = <<m>>
    /\ fn_ret' = Matrix3_determinant(m)
    /\ UNCHANGED <<terminal, escapes, camera, world>>

Transpose(m) ==
    /\ fn_name = "none"
    /\ fn_name' = "transpose"
    /\ fn_args' = <<m>>
    /\ fn_ret' = Matrix3_transpose(m)
    /\ UNCHANGED <<terminal, escapes, camera, world>>

IsOrthonormal(m) ==
    /\ fn_name = "none"
    /\ fn_name' = "is_orthonormal"
    /\ fn_args' = <<m>>
    /\ fn_ret' = Matrix3_is_orthonormal(m)
    /\ UNCHANGED <<terminal, escapes, camera, world>>

Orthonormalize(m) ==
    /\ fn_name = "none"
    /\ fn_name' = "orthonormalize"
    /\ fn_args' = <<m>>
    /\ fn_ret' = Matrix3_orthonormalize(m)
    /\ UNCHANGED <<terminal, escapes, camera, world>>

Invert(m) ==
    /\ fn_name = "none"
    /\ fn_name' = "invert"
    /\ fn_args' = <<m>>
    /\ fn_ret' = Matrix3_invert(m)
    /\ UNCHANGED <<terminal, escapes, camera, world>>

----------------------------------------------------------------------------
(* render.rs.  Screen-space x and y are kept in half units (twice the f64   *)
(* of the source), so that coordinates ending in .5 can be drawn; z is an   *)
(* integer.  A depth handed to `generate` is a quotient of the source,      *)
(* kept as num / den.                                                       *)

Abs(n) == IF n < 0 THEN -n ELSE n
Signum(n) == IF n > 0 THEN 1 ELSE IF n < 0 THEN -1 ELSE 0

\* f64::round of h / 2: to the nearest integer, halves away from zero
Round(h) == IF h >= 0 THEN (h + 1) \div 2 ELSE -((1 - h) \div 2)

\* for x in x0..=x1 of bresenham_line_3d; c holds what the loop does not change
RECURSIVE bresenham_walk(_, _, _, _)
bresenham_walk(x, y, err, c) ==
    IF x > c.x1
    THEN <<>>
    ELSE LET \* depth after x - x0 additions of depth_inc = dz / dx
             depth == IF x = c.x0
                      THEN [num |-> c.z0, den |-> 1]
                      ELSE [num |-> c.z0 * c.dx + (x - c.x0) * c.dz, den |-> c.dx]
             sample == [pixel |-> IF c.steep THEN <<y, x>> ELSE <<x, y>>,
                        depth |-> depth]
             err1 == err + Abs(c.dy)
             carry == 2 * err1 >= c.dx
         IN  <<sample>> \o bresenham_walk(x + 1,
                                          IF carry THEN y + Signum(c.dy) ELSE y,
                                          IF carry THEN err1 - c.dx ELSE err1,
                                          c)

\* the samples bresenham_line_3d hands to `generate`, in order
bresenham_line_3d(_start, _end) ==
    LET steep == Abs(_end[2] - _start[2]) > Abs(_end[1] - _start[1])
        start1 == IF steep THEN <<_start[2], _start[1], _start[3]>> ELSE _start
        end1 == IF steep THEN <<_end[2], _end[1], _end[3]>> ELSE _end
        start == IF end1[1] < start1[1] THEN end1 ELSE start1
        end == IF end1[1] < start1[1] THEN start1 ELSE end1
        x0 == Round(start[1])
        y0 == Round(start[2])
        x1 == Round(end[1])
        y1 == Round(end[2])
    IN  bresenham_walk(x0, y0, 0,
            [steep |-> steep, x0 |-> x0, x1 |-> x1,
             dx |-> x1 - x0, dy |-> y1 - y0, dz |-> end[3] - start[3], z0 |-> start[3]])

\* the three compare-and-swaps of sort_by_x (axis 1) and sort_by_y (axis 2)
sort_by(vertices, axis) ==
    LET r1 == IF vertices[1][axis] > vertices[2][axis]
              THEN <<vertices[2], vertices[1], vertices[3]>> ELSE vertices
        r2 == IF r1[1][axis] > r1[3][axis] THEN <<r1[3], r1[2], r1[1]>> ELSE r1
    IN  IF r2[2][axis] > r2[3][axis] THEN <<r2[1], r2[3], r2[2]>> ELSE r2

sort_by_x(vertices) == sort_by(vertices, 1)
sort_by_y(vertices) == sort_by(vertices, 2)

\* the shoelace formula.  On half units the sum is 4 times the one of the
\* source, so this is 8 times the signed area: its sign, its being zero and
\* the quotient of two areas are those of the source
get_triangle_area(t) ==
    (t[2][2] - t[1][2]) * (t[2][1] + t[1][1])
    + (t[3][2] - t[2][2]) * (t[3][1] + t[2][1])
    + (t[1][2] - t[3][2]) * (t[1][1] + t[3][1])

\* alpha, beta, gamma, as three numerators over the denominator `area`
get_bary_weights(point, triangle, area) ==
    [num |-> <<get_triangle_area(<<point, triangle[2], triangle[3]>>),
               get_triangle_area(<<point, triangle[3], triangle[1]>>),
               get_triangle_area(<<point, triangle[1], triangle[2]>>)>>,
     den |-> area]

\* weight < 0.0 for some weight
some_weight_negative(weights) ==
    \E i \in 1..3 : weights.num[i] * weights.den < 0

\* the body of the loops over the bounding box: is a sample generated at (x, y)
box_accepts(x, y, vertices, triangle_area) ==
    LET point == <<2 * x, 2 * y, 0>>
    IN  /\ ~some_weight_negative(get_bary_weights(point, vertices, triangle_area))
        /\ \A dx \in {-1, 1}, dy \in {-1, 1} :
              ~some_weight_negative(
                  get_bary_weights(Vector3_add(point, <<dx, dy, 0>>), vertices, triangle_area))

box_sample(x, y, vertices, triangle_area) ==
    LET weights == get_bary_weights(<<2 * x, 2 * y, 0>>, vertices, triangle_area)
    IN  [pixel |-> <<x, y>>,
         depth |-> [num |-> weights.num[1] * vertices[1][3]
                            + weights.num[2] * vertices[2][3]
                            + weights.num[3] * vertices[3][3],
                    den |-> triangle_area]]

\* the samples of the loops over the bounding box, row by row
box_scan(vertices, triangle_area) ==
    LET vertices_sorted_y == sort_by_y(vertices)
        vertices_sorted_x == sort_by_x(vertices)
        y_range == <<Round(vertices_sorted_y[1][2]), Round(vertices_sorted_y[3][2])>>
        x_range == <<Round(vertices_sorted_x[1][1]), Round(vertices_sorted_x[3][1])>>
        width == x_range[2] - x_range[1] + 1
        height == y_range[2] - y_range[1] + 1
        pixels == [n \in 1..(width * height) |->
                      <<x_range[1] + ((n - 1) % width), y_range[1] + ((n - 1) \div width)>>]
        accepted == SelectSeq(pixels,
                        LAMBDA p : box_accepts(p[1], p[2], vertices, triangle_area))
    IN  [n \in 1..Len(accepted) |->
            box_sample(accepted[n][1], accepted[n][2], vertices, triangle_area)]

\* mutant: bounding_box_triangle_3d without the degenerate-triangle return
bounding_box_triangle_3d_scans_degenerate(vertices) ==
    box_scan(vertices, get_triangle_area(vertices))
        \o bresenham_line_3d(vertices[1], vertices[2])
        \o bresenham_line_3d(vertices[2], vertices[3])
        \o bresenham_line_3d(vertices[3], vertices[1])

\* the samples bounding_box_triangle_3d hands to `generate`, in order
bounding_box_triangle_3d(vertices) ==
    LET triangle_area == get_triangle_area(vertices)
    IN  IF BelowEpsilon(triangle_area)
        THEN <<>>
        ELSE box_scan(vertices, triangle_area)
                 \o bresenham_line_3d(vertices[1], vertices[2])
                 \o bresenham_line_3d(vertices[2], vertices[3])
                 \o bresenham_line_3d(vertices[3], vertices[1])

\* screen-space points: x and y in half units (-0.5, 0, 0.5, 1, 2.5 and 4),
\* two depths
ScreenCoords == {-1, 0, 1, 2, 5, 8}
ScreenDepths == {0, 10}
ScreenPoints == ScreenCoords \X ScreenCoords \X ScreenDepths

\* the vertices of the triangles: x and y 0, 0.5 and 2
TriangleCoords == {0, 1, 4}
TrianglePoints == TriangleCoords \X TriangleCoords \X ScreenDepths

BresenhamLine3d(start, end) ==
    /\ fn_name = "none"
    /\ fn_name' = "bresenham_line_3d"
    /\ fn_args' = <<start, end>>
    /\ fn_ret' = bresenham_line_3d(start, end)
    /\ UNCHANGED <<terminal, escapes, camera, world>>

BoundingBoxTriangle3d(vertices) ==
    /\ fn_name = "none"
    /\ fn_name' = "bounding_box_triangle_3d"
    /\ fn_args' = vertices
    /\ fn_ret' = bounding_box_triangle_3d(vertices)
    /\ UNCHANGED <<terminal, escapes, camera, world>>

----------------------------------------------------------------------------
(* project_vector of the two cameras.  World points have integer            *)
(* components; the projection is in half units, as screen_top_left is: x    *)
(* and y are twice the screen position and z is twice the depth.            *)

\* Vector3::neg_y: the vector with its y negated
Vector3_neg_y(a) == <<a[1], -a[2], a[3]>>
\* Vector3::with_z: the vector with its z replaced
Vector3_with_z(a, z) == <<a[1], a[2], z>>

\* a.angle(b).abs() > PI / 4.0, that is cos(angle) < sqrt(2) / 2; the angle
\* to a zero vector is NaN, which is not greater than anything
angle_above_quarter_pi(a, b) ==
    LET dot == Vector3_dot(a, b)
        squares == Vector3_dot(a, a) * Vector3_dot(b, b)
    IN  /\ squares # 0
        /\ (dot <= 0 \/ 2 * dot * dot < squares)

IsoCamera_project_vector(cam, vec) ==
    LET normal_vector == cam.observation_direction
        incoming == Vector3_dot(Vector3_sub(vec, cam.observation_point), normal_vector)
        vec2 == Vector3_scale(vec, 2)
    IN  IF incoming <= 0        \* incoming < f64::EPSILON, for an integer
        THEN Vector3_neg_y(Vector3_sub(vec2, cam.screen_top_left))
        ELSE LET pt2 == Vector3_add(vec2,
                            Vector3_scale(normal_vector,
                                (2 * incoming) \div (-Vector3_dot(normal_vector, normal_vector))))
                 distance2 == Vector3_magnitude(Vector3_sub(vec2, pt2))
             IN  Vector3_add(Vector3_neg_y(Vector3_sub(pt2, cam.screen_top_left)),
                             <<0, 0, distance2>>)

PerspectiveCamera_project_vector(cam, vec) ==
    LET project_direction == Vector3_normalize(Vector3_sub(cam.observation_point, vec))
        normal_vector == cam.observation_direction
        dot == Vector3_dot(project_direction, normal_vector)
        incoming2 == Vector3_dot(Vector3_sub(Vector3_scale(vec, 2), cam.screen_top_left),
                                 normal_vector)
        distance_from_screen2 == (-incoming2) \div dot
        pt2 == Vector3_add(Vector3_scale(vec, 2),
                           Vector3_scale(project_direction, distance_from_screen2))
        position_on_screen ==
            Vector3_with_z(Vector3_neg_y(Vector3_sub(pt2, cam.screen_top_left)), 0)
    IN  IF BelowEpsilon(dot)
        THEN Vector3_with_z(position_on_screen, 0)
        ELSE LET depth_vector ==
                     Vector3_project(Vector3_sub(vec, cam.observation_point), normal_vector)
                 depth_direction ==
                     IF angle_above_quarter_pi(normal_vector, depth_vector) THEN -1 ELSE 1
                 depth == Vector3_magnitude(depth_vector) * depth_direction
             IN  Vector3_with_z(position_on_screen, 2 * depth)

\* world points in front of, on and behind the planes of the cameras drawn
WorldPoints == {0, 1} \X {-1, 2} \X {0, 5, 10, 15, 30, 40}

\* the isometric cameras looking down -z with y up, from any point drawn
IsoCamerasDownZ ==
    {IsoCamera_new(p, <<0, 0, -1>>, <<0, 1, 0>>, size) : p \in Points, size \in ScreenSizes}

IsoProjectVector(cam, vec) ==
    /\ fn_name = "none"
    /\ fn_name' = "IsoCamera::project_vector"
    /\ fn_args' = <<cam, vec>>
    /\ fn_ret' = IsoCamera_project_vector(cam, vec)
    /\ UNCHANGED <<terminal, escapes, camera, world>>

NextVector == \E a \in Vectors, b \in Vectors : Cross(a, b)

SpecVector == Init /\ [][NextVector]_vars

NextMatrix ==
    \/ \E m \in Matrices : Determinant(m)
    \/ \E m \in Matrices : Transpose(m)
    \/ \E m \in Matrices : IsOrthonormal(m)
    \/ \E m \in Orthogonalizable : Orthonormalize(m)
    \/ \E m \in Matrices : Invert(m)

SpecMatrix == Init /\ [][NextMatrix]_vars

NextRender ==
    \/ \E start \in ScreenPoints, end \in ScreenPoints : BresenhamLine3d(start, end)
    \/ \E a \in TrianglePoints, b \in TrianglePoints, c \in TrianglePoints :
          BoundingBoxTriangle3d(<<a, b, c>>)

SpecRender == Init /\ [][NextRender]_vars

NextProject == \E cam \in IsoCamerasDownZ, vec \in WorldPoints : IsoProjectVector(cam, vec)

SpecProject == Init /\ [][NextProject]_vars

----------------------------------------------------------------------------
(* Properties of the pure functions *)

(* C12: for all vectors a and b, a * b is                                   *)
(* (a.y*b.z - a.z*b.y, a.z*b.x - a.x*b.z, a.x*b.y - a.y*b.x), and so is     *)
(* perpendicular to a and to b (its dot product with each is zero).         *)
C12_CrossProduct ==
    fn_name = "cross" =>
        LET a == fn_args[1]
            b == fn_args[2]
        IN  /\ fn_ret = <<a[2] * b[3] - a[3] * b[2],
                          a[3] * b[1] - a[1] * b[3],
                          a[1] * b[2] - a[2] * b[1]>>
            /\ Vector3_dot(fn_ret, a) = 0
            /\ Vector3_dot(fn_ret, b) = 0

\* the pixel a screen-space point rounds to
RoundedPixel(point) == <<Round(point[1]), Round(point[2])>>

\* the dominant axis of a segment, decided on the inputs: 2 (y) when
\* |dy| > |dx|, else 1 (x)
DominantAxis(start, end) ==
    IF Abs(end[2] - start[2]) > Abs(end[1] - start[1]) THEN 2 ELSE 1

Min(a, b) == IF a < b THEN a ELSE b
Max(a, b) == IF a > b THEN a ELSE b

(* C13: bresenham_line_3d emits D + 1 samples, D the difference of the      *)
(* rounded endpoint coordinates along the dominant axis; the samples        *)
(* advance the dominant coordinate by 1 from the smaller to the larger      *)
(* rounded endpoint coordinate and change the other coordinate by at most   *)
(* 1; the first and the last sample are the two rounded endpoint pixels.    *)
C13_LineSamples ==
    fn_name = "bresenham_line_3d" =>
        LET major == DominantAxis(fn_args[1], fn_args[2])
            minor == 3 - major
            from == Min(Round(fn_args[1][major]), Round(fn_args[2][major]))
            to == Max(Round(fn_args[1][major]), Round(fn_args[2][major]))
        IN  /\ Len(fn_ret) = to - from + 1
            /\ \A k \in 1..Len(fn_ret) : fn_ret[k].pixel[major] = from + k - 1
            /\ \A k \in 1..(Len(fn_ret) - 1) :
                  Abs(fn_ret[k + 1].pixel[minor] - fn_ret[k].pixel[minor]) <= 1
            /\ {fn_ret[1].pixel, fn_ret[Len(fn_ret)].pixel}
                  = {RoundedPixel(fn_args[1]), RoundedPixel(fn_args[2])}

\* a depth handed to `generate` is exactly z
DepthIs(depth, z) == depth.num = z * depth.den

(* C14: the depths bresenham_line_3d emits run from the z of the endpoint   *)
(* where the walk begins (the one with the smaller dominant coordinate) to  *)
(* the z of the endpoint where it ends: the first sample has the former     *)
(* and the last sample exactly the latter, also when the rounded span is 0  *)
(* and the two depths differ.                                               *)
C14_DepthsRunStartToEnd ==
    fn_name = "bresenham_line_3d" =>
        LET major == DominantAxis(fn_args[1], fn_args[2])
            swapped == fn_args[2][major] < fn_args[1][major]
            begin == IF swapped THEN fn_args[2] ELSE fn_args[1]
            finish == IF swapped THEN fn_args[1] ELSE fn_args[2]
        IN  /\ DepthIs(fn_ret[1].depth, begin[3])
            /\ DepthIs(fn_ret[Len(fn_ret)].depth, finish[3])

\* three screen-space points lie on one line (or coincide) in (x, y)
Collinear(a, b, c) ==
    (b[1] - a[1]) * (c[2] - a[2]) = (b[2] - a[2]) * (c[1] - a[1])

\* every sample of `part` is among `whole`
SamplesAmong(part, whole) ==
    \A k \in 1..Len(part) : \E n \in 1..Len(whole) : whole[n] = part[k]

----------------------------------------------------------------------------
(* The driver loop with a perspective camera: the vertices of the scene are *)
(* projected by the camera and plotted.                                     *)

\* camera.project_vector(vec) on a &dyn Camera
project_vector(cam, vec) ==
    IF cam.kind = "IsoCamera"
    THEN IsoCamera_project_vector(cam, vec)
    ELSE PerspectiveCamera_project_vector(cam, vec)

\* vertices on the axis of the default perspective camera, which looks down
\* -z from (0, 0, 30): two in front of the observer and two behind
SceneVertices == {<<0, 0, 0>>, <<0, 0, 20>>, <<0, 0, 40>>, <<0, 0, 50>>}

\* the default perspective camera, for the screen sizes get_term_size reports
SceneCameras ==
    {PerspectiveCamera_default(<<size.cols, size.rows * 2>>) : size \in TermSizes}

\* the body of the loop over the vertices of buffer_world_object
BufferVertex(vertex, style) ==
    /\ pc = "buffer"
    /\ Len(calls) < MaxCalls
    /\ out' = <<>>
    /\ LET pojection == project_vector(camera, vertex)
           x == Round(pojection[1])
           y == Round(pojection[2])
       IN  IF is_in_bounds(x, y, term_width, term_height)
           THEN LET index == plot_index(AsU16(x), AsU16(y), term_width)
                IN  IF index >= Len(display)
                    THEN /\ pc' = "aborted"
                         /\ panic' = "index out of bounds"
                         /\ UNCHANGED <<display, calls, found>>
                    ELSE /\ display' = plot_character(display, term_width, AsU16(x), AsU16(y),
                                                      pojection[3], style, frame)
                         /\ calls' = Append(calls, [index |-> index, depth |-> pojection[3],
                                                    style |-> style, vertex |-> vertex])
                         /\ found' = display[index + 1]
                         /\ UNCHANGED <<pc, panic>>
           ELSE UNCHANGED <<pc, panic, display, calls, found>>
    /\ UNCHANGED <<frame, term_width, term_height>>
    /\ UNCHANGED <<escapes, camera, functions, world>>

InitScene ==
    /\ TerminalInit
    /\ EscapesInit
    /\ camera \in SceneCameras
    /\ FunctionsInit
    /\ WorldInit

NextScene ==
    \/ \E size \in Polled : New(size)
    \/ Update
    \/ \E size \in Polled : PreRender(size)
    \/ \E vertex \in SceneVertices, style \in ObjStyles : BufferVertex(vertex, style)
    \/ Render
    \/ NextFrame

SpecScene == InitScene /\ [][NextScene]_vars

\* a world point lies in front of, or behind, the observer of a camera
InFront(cam, vec) ==
    Vector3_dot(Vector3_sub(vec, cam.observation_point), cam.observation_direction) > 0
Behind(cam, vec) ==
    Vector3_dot(Vector3_sub(vec, cam.observation_point), cam.observation_direction) < 0

(* C16: with the perspective camera, when a sample projected from a point   *)
(* behind the observer and a sample projected from a point in front of the  *)
(* observer were plotted to the same cell in the same frame, in either      *)
(* order, the cell holds the in-front sample.                               *)
C16_BehindSortsFar ==
    \A i \in 0..(Len(display) - 1) :
        LET cs == CallsTo(i)
        IN  (/\ camera.kind = "PerspectiveCamera"
             /\ \E k \in 1..Len(cs) : InFront(camera, cs[k].vertex)
             /\ \E k \in 1..Len(cs) : Behind(camera, cs[k].vertex))
            => \E k \in 1..Len(cs) :
                  /\ InFront(camera, cs[k].vertex)
                  /\ display[i + 1] = [frame |-> frame, style |-> cs[k].style,
                                       dist |-> cs[k].depth]

(* C17: for the isometric camera looking down (0, 0, -1) with orientation   *)
(* (0, 1, 0), at any observation point and screen size, project_vector      *)
(* returns depth 0 for a point on or behind the plane through the           *)
(* observation point perpendicular to the direction, and the distance of    *)
(* the point to that plane for a point in front of it.  (The depth of the   *)
(* projection is in half units: twice the depth.)                           *)
C17_IsoDepthIsDistanceToPlane ==
    fn_name = "IsoCamera::project_vector" =>
        LET cam == fn_args[1]
            vec == fn_args[2]
            ahead == Vector3_dot(Vector3_sub(vec, cam.observation_point),
                                 cam.observation_direction)
        IN  fn_ret[3] = 2 * (IF ahead <= 0 THEN 0 ELSE ahead)

C19_InvertOrNone ==
    fn_name = "invert" =>
        LET M == fn_args[1]
            det == M[1][1] * (M[2][2] * M[3][3] - M[2][3] * M[3][2])
                   - M[1][2] * (M[2][1] * M[3][3] - M[2][3] * M[3][1])
                   + M[1][3] * (M[2][1] * M[3][2] - M[2][2] * M[3][1])
        IN  IF det = 0
            THEN fn_ret = None
            ELSE /\ fn_ret # None
                 /\ fn_ret.den = det
                 /\ fn_ret.num = Matrix3_adjugate(M)
                 /\ Matrix3_mul(M, fn_ret.num) = Matrix3_scale(Matrix3_id, det)

\* a matrix with two equal rows has no inverse
C19_Witness ==
    /\ fn_name = "invert"
    /\ fn_args = <<<<<<1, 1, 0>>, <<1, 1, 0>>, <<0, 0, 1>>>>>>
    /\ fn_ret = None

----------------------------------------------------------------------------
(* world.rs: World, and the BTreeMap it exposes through Deref and DerefMut  *)

MaxObjects == 4     \* add_world_object calls in a run

\* the objects a scene is made of
WorldObjects == {"Square", "Point"}

\* BTreeMap::insert: the map with `key` bound to `obj`
BTreeMap_insert(map, key, obj) ==
    [k \in (DOMAIN map) \cup {key} |-> IF k = key THEN obj ELSE map[k]]

\* BTreeMap::remove: the map without `key`
BTreeMap_remove(map, key) ==
    [k \in (DOMAIN map) \ {key} |-> map[k]]

\* the keys of a BTreeMap in the order its iterators visit them: ascending
RECURSIVE BTreeMap_keys(_)
BTreeMap_keys(map) ==
    IF DOMAIN map = {}
    THEN <<>>
    ELSE LET first == CHOOSE k \in DOMAIN map : \A other \in DOMAIN map : k <= other
         IN  <<first>> \o BTreeMap_keys(BTreeMap_remove(map, first))

\* mutant: add_world_object keyed by the number of objects in the map
AddWorldObject_keyed_by_len(obj) ==
    /\ counter < MaxObjects
    /\ counter' = counter + 1
    /\ objects' = BTreeMap_insert(objects, Cardinality(DOMAIN objects), obj)
    /\ added' = Append(added, Cardinality(DOMAIN objects))
    /\ UNCHANGED <<terminal, escapes, camera, functions>>

\* World::add_world_object
AddWorldObject(obj) ==
    /\ counter < MaxObjects
    /\ counter' = counter + 1
    /\ objects' = BTreeMap_insert(objects, counter' - 1, obj)
    /\ added' = Append(added, counter' - 1)
    /\ UNCHANGED <<terminal, escapes, camera, functions>>

\* world.remove(&id), through DerefMut
RemoveWorldObject(id) ==
    /\ id \in DOMAIN objects
    /\ objects' = BTreeMap_remove(objects, id)
    /\ UNCHANGED <<counter, added>>
    /\ UNCHANGED <<terminal, escapes, camera, functions>>

\* world.values(), through Deref: one pass over the map; the ids are
\* recorded in the order their objects are visited
Values ==
    /\ fn_name' = "values"
    /\ fn_args' = <<DOMAIN objects>>
    /\ fn_ret' = BTreeMap_keys(objects)
    /\ UNCHANGED <<terminal, escapes, camera, world>>

NextWorld ==
    \/ \E obj \in WorldObjects : AddWorldObject(obj)
    \/ \E id \in 0..(MaxObjects - 1) : RemoveWorldObject(id)
    \/ Values

SpecWorld == Init /\ [][NextWorld]_vars

(* C20: the k-th object add_world_object adds (k = 0, 1, 2, ...) has id k;  *)
(* ids are strictly increasing in insertion order and none is assigned      *)
(* twice, also when entries are removed through the exposed map between     *)
(* insertions; a pass over the container visits the objects in ascending    *)
(* id order, which is the order they were inserted in.                      *)
C20_IdsCountInsertions ==
    /\ \A k \in 1..Len(added) : added[k] = k - 1
    /\ \A j \in 1..Len(added), k \in 1..Len(added) : j < k => added[j] < added[k]
    /\ DOMAIN objects \subseteq {added[k] : k \in 1..Len(added)}
    /\ fn_name = "values" =>
          /\ \A j \in 1..Len(fn_ret), k \in 1..Len(fn_ret) : j < k => fn_ret[j] < fn_ret[k]
          /\ fn_ret = SelectSeq(added, LAMBDA id : id \in fn_args[1])

\* three objects were added, the first was removed, and a pass visited the
\* other two in the order they were added
C20_Witness ==
    /\ added = <<0, 1, 2>>
    /\ DOMAIN objects = {1, 2}
    /\ fn_name = "values"
    /\ fn_ret = <<1, 2>>

----------------------------------------------------------------------------
(* The driver loop of main: one frame after the other *)

\* main is one sequential thread: whenever it has a step to take it takes it
\* (the sleep of main.rs:93-95 is bounded by frame_time)
SpecLive == Spec /\ WF_vars(Next)

\* main has returned, or a panic has ended it
Terminated == pc = "done" \/ pc = "aborted"

\* one step of the driver, by the position it is taken from
DriverStep ==
    /\ pc = "new" => /\ pc' = "update" \/ pc' = "aborted"
                     /\ frame = 1 /\ frame' = 1
    /\ pc = "update" => pc' = "pre_render" /\ frame' = frame
    /\ pc = "pre_render" => /\ pc' = "buffer" \/ pc' = "aborted"
                            /\ frame' = frame
    /\ pc = "buffer" => /\ pc' = "buffer" \/ pc' = "next" \/ pc' = "aborted"
                        /\ frame' = frame
                        /\ pc' = "next" => out' = render_output(display, term_width)
    /\ pc = "next" => \/ pc' = "update" /\ frame' = frame + 1
                      \/ pc' = "done" /\ frame' = frame /\ frame = MaxFrame
    /\ ~Terminated

\* C21: the frames are numbered 1, 2, 3, ..., each one more than the one
\* before; a frame runs update, then pre_render once, then the buffering of the
\* objects, then render once, and the next frame starts only when render has
\* returned; the loop ends: after the render of its last frame, or earlier where
\* a panic of the terminal ends the process
C21_DriverLoop ==
    /\ [][DriverStep]_vars
    /\ [](pc = "done" => frame = MaxFrame /\ panic = "none")
    /\ <>Terminated

\* the loop has run all its frames and the last one was rendered on a grid
C21_Witness ==
    /\ pc = "done"
    /\ frame = MaxFrame
    /\ Len(display) > 0

(* C22: a pre_render that polls the dimensions the terminal has stored leaves *)
(* the grid as it is: its size, and the stamp, style and depth of every cell, *)
(* whatever the dimensions are.  Stated for a grid that has been allocated,   *)
(* so that a violation does not rest on the first allocation.                 *)
C22_SameSizeKeepsGrid ==
    [][\A size \in TermSizes :
        (/\ PreRender(size)
         /\ size.rows = term_height
         /\ size.cols = term_width
         /\ Len(display) = term_width * term_height) =>
            /\ display' = display
            /\ term_width' = term_width
            /\ term_height' = term_height]_vars

----------------------------------------------------------------------------
(* render() on a grid the objects of a scene have been buffered into *)

\* styles a WorldObject can return from vertex_style and edge_style, with the
\* blank style of a cell no sample was written to
PaintStyles == ({"X", "O"} \X {"Reset", "Blue", "Red"} \X {"None", "Bold"}) \cup {BlankStyle}

\* a cell as plot_character leaves it, or as pre_render allocated it
PaintedCell(style) ==
    IF style = BlankStyle
    THEN BlankCharacter
    ELSE [frame |-> 1, style |-> style, dist |-> 1]

\* frame 1 once buffer_world_object has returned for every object; the
\* samples that painted the grid are not recorded in calls
InitPaint ==
    /\ pc = "buffer"
    /\ panic = "none"
    /\ frame = 1
    /\ \E size \in TermSizes :
          /\ term_width = size.cols
          /\ term_height = size.rows
          /\ display \in [1..(size.rows * size.cols) -> {PaintedCell(style) : style \in PaintStyles}]
    /\ out = <<>>
    /\ calls = <<>>
    /\ found = BlankCharacter
    /\ EscapesInit
    /\ camera = IsoCamera_default(<<2, 2>>)
    /\ FunctionsInit
    /\ WorldInit

NextPaint == Render

SpecPaint == InitPaint /\ [][NextPaint]_vars

IsEscape(item) == item # "ESC[H" /\ item # "\n" /\ ~IsGlyph(item)

\* where the i-th glyph (1-based) stands in an output
GlyphPos(output, i) ==
    CHOOSE k \in 1..Len(output) :
        /\ IsGlyph(output[k])
        /\ Len(GlyphsOf(SubSeq(output, 1, k))) = i

\* the escapes written for cell i (1-based): those between the glyph of the
\* cell before (the reset escape after cursor-home, for the first cell) and
\* the cell's own glyph
EscapesFor(output, i) ==
    LET from == IF i = 1 THEN 3 ELSE GlyphPos(output, i - 1) + 1
    IN  SelectSeq(SubSeq(output, from, GlyphPos(output, i) - 1), IsEscape)

\* the escape in force where the i-th glyph is written
EscapeInForce(output, i) ==
    LET before == SelectSeq(SubSeq(output, 1, GlyphPos(output, i) - 1), IsEscape)
    IN  before[Len(before)]

StyleDiffers(a, b) == <<a[2], a[3]>> # <<b[2], b[3]>>

\* C23: render writes cursor-home and the escape of (Reset, None) first; then
\* an escape is written before the glyph of a cell exactly when the (color,
\* decoration) of the cell differs from that of the cell before (of (Reset,
\* None) for the first cell), and it is the escape of the cell's own style; so
\* where a glyph is written the last escape written is the one of the cell's
\* (color, decoration), and a cell that differs from the one before in its
\* glyph only gets no escape
C23_EscapeOnStyleChange ==
    pc = "next" =>
        /\ out[1] = "ESC[H"
        /\ out[2] = SgrOf(BlankStyle)
        /\ Len(GlyphsOf(out)) = Len(display)
        /\ \A i \in 1..Len(display) :
              LET prev == IF i = 1 THEN BlankStyle ELSE display[i - 1].style
                  own == display[i].style
              IN  /\ out[GlyphPos(out, i)] = own[1]
                  /\ EscapesFor(out, i) = IF StyleDiffers(own, prev)
                                          THEN <<SgrOf(own)>>
                                          ELSE <<>>
                  /\ EscapeInForce(out, i) = SgrOf(own)

\* a row of two cells was rendered whose glyphs differ and whose styles do
\* not, followed by a row whose first cell differs in the decoration only
C23_Witness ==
    /\ pc = "next"
    /\ Len(display) = 4
    /\ display[1].style = <<"X", "Blue", "None">>
    /\ display[2].style = <<"O", "Blue", "None">>
    /\ display[3].style = <<"O", "Blue", "Bold">>
    /\ display[4].style = BlankStyle
    /\ out = <<"ESC[H", "ESC[0m", "ESC[0;34m", "X", "O", "ESC[1;34m", "\n", "O", "ESC[0m", " ">>

----------------------------------------------------------------------------
(* Terminal::get_term_size and the cell a pixel is plotted to, as functions *)
(* of the stored width and height                                           *)

\* (self.term_width, self.term_height * 2) in u16: past the u16 range the
\* product panics where overflow checks are compiled in, and wraps otherwise
Terminal_get_term_size(w, h) ==
    IF h * 2 < U16
    THEN {<<"ok", w, h * 2>>}
    ELSE {<<"panic", "attempt to multiply with overflow">>, <<"ok", w, (h * 2) % U16>>}

\* the index plot_character computes for the pixel (x, y) that
\* buffer_world_object hands it as (x as u16, y as u16), once is_in_bounds
\* has let the pixel through
plot_address(x, y, w, h) ==
    IF is_in_bounds(x, y, w, h)
    THEN <<"plot", plot_index(AsU16(x), AsU16(y), w)>>
    ELSE <<"discard">>

\* stored sizes: small grids, and the heights around half the u16 range
AddressWidths == {1, 2, 3}
AddressHeights == {1, 2, 3, 32767, 32768, 32769}
AddressXs == -1..3
AddressYs == (-1..6) \cup {65533, 65534, 65535, 65536, 65537, 65538}

GetTermSize(w, h) ==
    /\ fn_name = "none"
    /\ fn_name' = "get_term_size"
    /\ fn_args' = <<w, h>>
    /\ fn_ret' \in Terminal_get_term_size(w, h)
    /\ UNCHANGED <<terminal, escapes, camera, world>>

PlotAddress(x, y, w, h) ==
    /\ fn_name = "none"
    /\ fn_name' = "plot_address"
    /\ fn_args' = <<x, y, w, h>>
    /\ fn_ret' = plot_address(x, y, w, h)
    /\ UNCHANGED <<terminal, escapes, camera, world>>

NextAddress ==
    \/ \E w \in AddressWidths, h \in AddressHeights : GetTermSize(w, h)
    \/ \E x \in AddressXs, y \in AddressYs, w \in AddressWidths, h \in AddressHeights :
          PlotAddress(x, y, w, h)

SpecAddress == Init /\ [][NextAddress]_vars

\* C24: a pixel (x, y) with 0 <= x < width and 0 <= y < 2 * height is plotted
\* to the cell of row floor(y / 2) and column x, at index
\* floor(y / 2) * width + x, which is less than width * height, so that the
\* rows 2k and 2k + 1 of the projection fall in row k of the grid; and
\* get_term_size returns the stored width with twice the stored height
C24_TwoRowsPerCell ==
    /\ fn_name = "plot_address" =>
          LET x == fn_args[1]
              y == fn_args[2]
              w == fn_args[3]
              h == fn_args[4]
          IN  (0 <= x /\ x < w /\ 0 <= y /\ y < 2 * h) =>
                  /\ fn_ret = <<"plot", (y \div 2) * w + x>>
                  /\ fn_ret[2] < w * h
                  /\ fn_ret[2] \div w = y \div 2
                  /\ fn_ret[2] % w = x
    /\ fn_name = "get_term_size" =>
          fn_ret = <<"ok", fn_args[1], 2 * fn_args[2]>>

====
